---- MODULE Spec2Model ----
(***************************************************************************)
(* Evaluation of math-mode syntax nodes into content                        *)
(* (crates/typst/src/eval/math.rs).                                         *)
(*                                                                          *)
(* Every `impl Eval for ast::X` is an operator XEval(self, vm) returning    *)
(* [res, vm]: the SourceResult of the handler and the Vm it leaves behind.  *)
(* The Vm is [scopes, trace]: the math bindings read by get_in_math and the *)
(* list of the syntax nodes whose handler has been entered, in call order.  *)
(* One action per handler applies it to a node drawn from a bounded set.    *)
(***************************************************************************)
EXTENDS Naturals, Sequences, FiniteSets, TLC

VARIABLES scopes, scopes0, last, node, result, trace, calls

vars == <<scopes, scopes0, last, node, result, trace, calls>>

(***************************************************************************)
(* Bounds of the model.                                                     *)
(***************************************************************************)
\* Largest number of children of a math sequence.
MaxLen == 2
\* Largest number of prime marks on one attachment.
MaxPrimes == 2
\* Largest number of handler calls made on one Vm.
MaxCalls == 2

(***************************************************************************)
(* Spans.  A node's span is its path from the root of the evaluated tree;   *)
(* a freshly packed element carries the detached span.                      *)
(***************************************************************************)
Detached == <<>>

RootSpan == <<1>>

\* Span of a value that was bound in the scope with a span of its own.
BoundSpan == <<9>>

(***************************************************************************)
(* Content elements (crate::math / crate::text / foundations::Content).    *)
(***************************************************************************)
\* Option<T>: None is the empty sequence, Some(x) the sequence <<x>>.
None == <<>>

Some(x) == <<x>>

TextElem(text) == [kind |-> "TextElem", text |-> text, span |-> Detached]

AlignPointElem == [kind |-> "AlignPointElem", span |-> Detached]

PrimesElem(count) == [kind |-> "PrimesElem", count |-> count, span |-> Detached]

FracElem(num, denom) ==
    [kind |-> "FracElem", num |-> num, denom |-> denom, span |-> Detached]

RootElem(radicand) ==
    [kind |-> "RootElem", index |-> None, radicand |-> radicand,
     span |-> Detached]

WithIndex(elem, index) == [elem EXCEPT !.index = index]

LrElem(body) == [kind |-> "LrElem", body |-> body, span |-> Detached]

AttachElem(base) ==
    [kind |-> "AttachElem", base |-> base, t |-> None, b |-> None,
     tr |-> None, span |-> Detached]

PushT(elem, c) == [elem EXCEPT !.t = c]

PushB(elem, c) == [elem EXCEPT !.b = c]

PushTr(elem, c) == [elem EXCEPT !.tr = c]

\* Content::sequence: the composite of the given elements, in order.
ContentSequence(children) ==
    [kind |-> "SequenceElem", children |-> children, span |-> Detached]

\* The parts a content contributes to a concatenation.
Parts(c) == IF c.kind = "SequenceElem" THEN c.children ELSE <<c>>

\* Content + Content: concatenation.
ContentAdd(lhs, rhs) == ContentSequence(Parts(lhs) \o Parts(rhs))

\* Content::spanned: sets the span unless the content already has one.
Spanned(c, span) == IF c.span = Detached THEN [c EXCEPT !.span = span] ELSE c

(***************************************************************************)
(* Values (foundations::Value) and their display.                          *)
(***************************************************************************)
SymbolValue(repr) == [kind |-> "Symbol", repr |-> repr]

ContentValue(c) == [kind |-> "Content", content |-> c]

\* Value::display: content is shown as it is, anything else as its text.
Display(v) == IF v.kind = "Content" THEN v.content ELSE TextElem(v.repr)

(***************************************************************************)
(* Results and the Vm.                                                      *)
(***************************************************************************)
Ok(v, vm) == [res |-> [ok |-> TRUE, val |-> v], vm |-> vm]

Fail(r) == [res |-> r.res, vm |-> r.vm]

\* StrResult of Scopes::get_in_math: a reference to the bound value or a
\* message naming the unknown variable.
GetInMath(sc, name) ==
    IF name \in DOMAIN sc
    THEN [ok |-> TRUE, val |-> sc[name]]
    ELSE [ok |-> FALSE, msg |-> <<"unknown variable", name>>]

\* At::at: a StrResult becomes a SourceResult whose error carries the span.
At(r, span) ==
    IF r.ok THEN r ELSE [ok |-> FALSE, err |-> [span |-> span, msg |-> r.msg]]

\* Entering the handler of a node.
Enter(vm, self) == [vm EXCEPT !.trace = Append(@, self.span)]

\* eco_format!("{i}") of a root index.
RECURSIVE FormatIndex(_)
FormatIndex(i) ==
    LET digit == <<"0", "1", "2", "3", "4", "5", "6", "7", "8", "9">>[(i % 10) + 1]
    IN  IF i < 10 THEN digit ELSE FormatIndex(i \div 10) \o digit

(***************************************************************************)
(* The handlers.                                                            *)
(***************************************************************************)
RECURSIVE ExprEval(_, _), ExprEvalDisplay(_, _), CollectDisplay(_, _, _, _)
RECURSIVE MathEval(_, _), MathDelimitedEval(_, _), MathAttachEval(_, _)
RECURSIVE MathFracEval(_, _), MathRootEval(_, _), AttachTop(_, _, _)
RECURSIVE AttachBottom(_, _, _)

\* impl Eval for ast::Opening
OpeningEval(self, vm) == Ok(TextElem(self.delim), Enter(vm, self))

\* impl Eval for ast::Closing
ClosingEval(self, vm) == Ok(TextElem(self.delim), Enter(vm, self))

\* Mutant: an unknown identifier evaluates to an empty placeholder.
MathIdentEvalPlaceholder(self, vm) ==
    LET vm1 == Enter(vm, self)
        r == GetInMath(vm1.scopes, self.name)
    IN  IF r.ok THEN [res |-> r, vm |-> vm1] ELSE Ok(SymbolValue(""), vm1)

\* Mutant: the bound value is moved out of the scope instead of cloned.
MathIdentEvalTake(self, vm) ==
    LET vm1 == Enter(vm, self)
        left == [n \in DOMAIN vm1.scopes \ {self.name} |-> vm1.scopes[n]]
    IN  [res |-> At(GetInMath(vm1.scopes, self.name), self.span),
         vm |-> [vm1 EXCEPT !.scopes = left]]

\* Mutant: a failed lookup leaves the name defined in the scope.
MathIdentEvalDefine(self, vm) ==
    LET vm1 == Enter(vm, self)
        defined == [n \in DOMAIN vm1.scopes \cup {self.name} |->
                        IF n \in DOMAIN vm1.scopes THEN vm1.scopes[n]
                        ELSE SymbolValue("")]
    IN  [res |-> At(GetInMath(vm1.scopes, self.name), self.span),
         vm |-> [vm1 EXCEPT !.scopes = defined]]

\* impl Eval for ast::MathIdent
MathIdentEval(self, vm) ==
    LET vm1 == Enter(vm, self)
    IN  [res |-> At(GetInMath(vm1.scopes, self.name), self.span), vm |-> vm1]

\* impl Eval for ast::MathAlignPoint
MathAlignPointEval(self, vm) == Ok(AlignPointElem, Enter(vm, self))

\* impl Eval for ast::MathPrimes
MathPrimesEval(self, vm) == Ok(PrimesElem(self.count), Enter(vm, self))

\* The `?` operator: the rest of the handler runs on a success, an error is
\* returned at once.
Try(r, rest(_)) == IF r.res.ok THEN rest(r) ELSE Fail(r)

\* Mutant: the children that fail are left out (filter_map(.. .ok())).
CollectDisplaySkipErrors(exprs, i, acc, vm) ==
    IF i > Len(exprs)
    THEN Ok(acc, vm)
    ELSE LET r == ExprEvalDisplay(exprs[i], vm)
         IN  IF r.res.ok
             THEN CollectDisplay(exprs, i + 1, Append(acc, r.res.val), r.vm)
             ELSE CollectDisplay(exprs, i + 1, acc, r.vm)

\* Mutant: each result is put in front of the earlier ones.
CollectDisplayReversed(exprs, i, acc, vm) ==
    IF i > Len(exprs)
    THEN Ok(acc, vm)
    ELSE Try(ExprEvalDisplay(exprs[i], vm), LAMBDA r :
             CollectDisplay(exprs, i + 1, <<r.res.val>> \o acc, r.vm))

\* self.exprs().map(|expr| expr.eval_display(vm)).collect::<SourceResult<Vec<_>>>():
\* the children are evaluated from the left and the first error ends the walk.
CollectDisplay(exprs, i, acc, vm) ==
    IF i > Len(exprs)
    THEN Ok(acc, vm)
    ELSE Try(ExprEvalDisplay(exprs[i], vm), LAMBDA r :
             CollectDisplay(exprs, i + 1, Append(acc, r.res.val), r.vm))

\* impl Eval for ast::Math
MathEval(self, vm) ==
    Try(CollectDisplay(self.exprs, 1, <<>>, Enter(vm, self)), LAMBDA r :
        Ok(ContentSequence(r.res.val), r.vm))

\* Mutant: the closing glyph is taken for both ends of the group.
MathDelimitedEvalCloseTwice(self, vm) ==
    Try(ExprEvalDisplay(self.open, Enter(vm, self)), LAMBDA open :
    Try(MathEval(self.body, open.vm), LAMBDA body :
    Try(ExprEvalDisplay(self.close, body.vm), LAMBDA close :
        Ok(LrElem(ContentAdd(ContentAdd(close.res.val, body.res.val),
                             close.res.val)), close.vm))))

\* impl Eval for ast::MathDelimited
MathDelimitedEval(self, vm) ==
    Try(ExprEvalDisplay(self.open, Enter(vm, self)), LAMBDA open :
    Try(MathEval(self.body, open.vm), LAMBDA body :
    Try(ExprEvalDisplay(self.close, body.vm), LAMBDA close :
        Ok(LrElem(ContentAdd(ContentAdd(open.res.val, body.res.val),
                             close.res.val)), close.vm))))

\* Mutant: the primes are attached whether or not a superscript is written
\* (`if let` in place of `else if let`).
AttachTopAndPrimes(self, elem, vm) ==
    Try(IF self.top # None
        THEN Try(ExprEvalDisplay(self.top[1], vm), LAMBDA t :
                 Ok(PushT(elem, Some(t.res.val)), t.vm))
        ELSE Ok(elem, vm), LAMBDA top :
    IF self.primes # None
    THEN Try(MathPrimesEval(self.primes[1], top.vm), LAMBDA p :
             Ok(PushTr(top.res.val, Some(p.res.val)), p.vm))
    ELSE top)

\* if let Some(expr) = self.top() { elem.push_t(..) }
\* else if let Some(primes) = self.primes() { elem.push_tr(..) }
AttachTop(self, elem, vm) ==
    IF self.top # None
    THEN Try(ExprEvalDisplay(self.top[1], vm), LAMBDA t :
             Ok(PushT(elem, Some(t.res.val)), t.vm))
    ELSE IF self.primes # None
    THEN Try(MathPrimesEval(self.primes[1], vm), LAMBDA p :
             Ok(PushTr(elem, Some(p.res.val)), p.vm))
    ELSE Ok(elem, vm)

\* if let Some(expr) = self.bottom() { elem.push_b(..) }
AttachBottom(self, elem, vm) ==
    IF self.bottom # None
    THEN Try(ExprEvalDisplay(self.bottom[1], vm), LAMBDA b :
             Ok(PushB(elem, Some(b.res.val)), b.vm))
    ELSE Ok(elem, vm)

\* impl Eval for ast::MathAttach
MathAttachEval(self, vm) ==
    Try(ExprEvalDisplay(self.base, Enter(vm, self)), LAMBDA base :
    Try(AttachTop(self, AttachElem(base.res.val), base.vm), LAMBDA top :
        AttachBottom(self, top.res.val, top.vm)))

\* Mutant: the denominator is evaluated before the numerator.
MathFracEvalDenomFirst(self, vm) ==
    Try(ExprEvalDisplay(self.denom, Enter(vm, self)), LAMBDA denom :
    Try(ExprEvalDisplay(self.num, denom.vm), LAMBDA num :
        Ok(FracElem(num.res.val, denom.res.val), num.vm)))

\* impl Eval for ast::MathFrac
MathFracEval(self, vm) ==
    Try(ExprEvalDisplay(self.num, Enter(vm, self)), LAMBDA num :
    Try(ExprEvalDisplay(self.denom, num.vm), LAMBDA denom :
        Ok(FracElem(num.res.val, denom.res.val), denom.vm)))

\* let index = self.index().map(|i| TextElem::packed(eco_format!("{i}")))
RootIndex(self) ==
    IF self.index # None THEN Some(TextElem(FormatIndex(self.index[1])))
    ELSE None

\* impl Eval for ast::MathRoot
MathRootEval(self, vm) ==
    Try(ExprEvalDisplay(self.radicand, Enter(vm, self)), LAMBDA radicand :
        Ok(WithIndex(RootElem(radicand.res.val), RootIndex(self)), radicand.vm))

\* The handler of a node kind whose output is content.
ContentEval(self, vm) ==
    CASE self.kind = "Math" -> MathEval(self, vm)
      [] self.kind = "Opening" -> OpeningEval(self, vm)
      [] self.kind = "Closing" -> ClosingEval(self, vm)
      [] self.kind = "MathAlignPoint" -> MathAlignPointEval(self, vm)
      [] self.kind = "MathDelimited" -> MathDelimitedEval(self, vm)
      [] self.kind = "MathAttach" -> MathAttachEval(self, vm)
      [] self.kind = "MathPrimes" -> MathPrimesEval(self, vm)
      [] self.kind = "MathFrac" -> MathFracEval(self, vm)
      [] self.kind = "MathRoot" -> MathRootEval(self, vm)

\* impl Eval for ast::Expr: the handler of the node's kind, its output as a
\* Value.
ExprEval(self, vm) ==
    IF self.kind = "MathIdent"
    THEN MathIdentEval(self, vm)
    ELSE Try(ContentEval(self, vm), LAMBDA r :
             Ok(ContentValue(r.res.val), r.vm))

\* ExprExt::eval_display
ExprEvalDisplay(self, vm) ==
    Try(ExprEval(self, vm), LAMBDA r :
        Ok(Spanned(Display(r.res.val), self.span), r.vm))

(***************************************************************************)
(* Syntax nodes (syntax::ast).  Every node carries its span.                *)
(***************************************************************************)
MathIdent(name) == [kind |-> "MathIdent", name |-> name, span |-> Detached]

MathAlignPoint == [kind |-> "MathAlignPoint", span |-> Detached]

Opening(delim) == [kind |-> "Opening", delim |-> delim, span |-> Detached]

Closing(delim) == [kind |-> "Closing", delim |-> delim, span |-> Detached]

MathPrimes(count) == [kind |-> "MathPrimes", count |-> count, span |-> Detached]

Math(exprs) == [kind |-> "Math", exprs |-> exprs, span |-> Detached]

MathDelimited(open, body, close) ==
    [kind |-> "MathDelimited", open |-> open, body |-> body, close |-> close,
     span |-> Detached]

MathAttach(base, top, bottom, primes) ==
    [kind |-> "MathAttach", base |-> base, top |-> top, bottom |-> bottom,
     primes |-> primes, span |-> Detached]

MathFrac(num, denom) ==
    [kind |-> "MathFrac", num |-> num, denom |-> denom, span |-> Detached]

MathRoot(index, radicand) ==
    [kind |-> "MathRoot", index |-> index, radicand |-> radicand,
     span |-> Detached]

\* The tree with every node given its span: the root `span`, a child the span
\* of its parent extended by its position.
RECURSIVE WithSpans(_, _)
WithSpans(e, span) ==
    LET child(c, i) == WithSpans(c, Append(span, i))
        opt(o, i) == IF o = None THEN None ELSE Some(child(o[1], i))
    IN  CASE e.kind = "Math" ->
               [e EXCEPT !.span = span,
                         !.exprs = [i \in 1..Len(@) |-> child(@[i], i)]]
          [] e.kind = "MathDelimited" ->
               [e EXCEPT !.span = span, !.open = child(@, 1),
                         !.body = child(@, 2), !.close = child(@, 3)]
          [] e.kind = "MathAttach" ->
               [e EXCEPT !.span = span, !.base = child(@, 1),
                         !.top = opt(@, 2), !.bottom = opt(@, 3),
                         !.primes = opt(@, 4)]
          [] e.kind = "MathFrac" ->
               [e EXCEPT !.span = span, !.num = child(@, 1),
                         !.denom = child(@, 2)]
          [] e.kind = "MathRoot" ->
               [e EXCEPT !.span = span, !.radicand = child(@, 1)]
          [] OTHER -> [e EXCEPT !.span = span]

(***************************************************************************)
(* The bounded inputs.                                                      *)
(***************************************************************************)
Names == {"x", "y"}

Values == {SymbolValue("alpha"),
           ContentValue(Spanned(TextElem("bound"), BoundSpan))}

\* The math scopes: every binding of some of the names.
Scopes == UNION {[D -> Values] : D \in SUBSET Names}

Opens == {"(", "["}

Closes == {")", "]"}

\* MathRoot::index: none for the square root, 3 and 4 for the cube and the
\* fourth root.
Indexes == {None, Some(3), Some(4)}

Option(S) == {None} \cup {Some(x) : x \in S}

SeqsUpTo(S, n) == UNION {[1..k -> S] : k \in 0..n}

Idents == {MathIdent(n) : n \in Names}

Atoms == Idents \cup {MathAlignPoint}

PrimesNodes == {MathPrimes(c) : c \in 1..MaxPrimes}

FracsOver(S) == {MathFrac(n, d) : n \in S, d \in S}

RootsOver(S) == {MathRoot(i, r) : i \in Indexes, r \in S}

AttachesOver(S, T) ==
    {MathAttach(b, t, s, p) : b \in S, t \in Option(T), s \in Option(T),
                              p \in Option(PrimesNodes)}

MathsOver(S) == {Math(s) : s \in SeqsUpTo(S, MaxLen)}

DelimitedsOver(B) ==
    {MathDelimited(Opening(o), b, Closing(c)) : o \in Opens, b \in B, c \in Closes}

Small == Atoms \cup FracsOver(Idents) \cup RootsOver(Idents)

Scripts == AttachesOver(Idents, Idents)

Bodies == MathsOver(Atoms) \cup {Math(<<k>>) : k \in Small \cup Scripts}

Spanning(S) == {WithSpans(e, RootSpan) : e \in S}

OpeningInputs == Spanning({Opening(o) : o \in Opens})

ClosingInputs == Spanning({Closing(c) : c \in Closes})

\* Places an identifier is evaluated at.
IdentSpans == {RootSpan, <<1, 2>>, <<1, 2, 1>>}

MathIdentInputs == {WithSpans(e, span) : e \in Idents, span \in IdentSpans}

MathAlignPointInputs == Spanning({MathAlignPoint})

MathPrimesInputs == Spanning(PrimesNodes)

MathFracInputs == Spanning(FracsOver(Small))

MathRootInputs == Spanning(RootsOver(Small \cup Scripts))

MathAttachInputs == Spanning(AttachesOver(Atoms \cup FracsOver(Idents), Idents))

MathDelimitedInputs == Spanning(DelimitedsOver(Bodies))

MathInputs ==
    Spanning(MathsOver(Atoms \cup FracsOver(Idents))
             \cup {Math(<<k>>) : k \in FracsOver(Small) \cup RootsOver(Small)
                                       \cup Scripts \cup DelimitedsOver(Bodies)})

ExprInputs ==
    Spanning(Small \cup Scripts \cup DelimitedsOver(MathsOver(Atoms))
             \cup {Opening(o) : o \in Opens} \cup {Closing(c) : c \in Closes})

(***************************************************************************)
(* The state machine.                                                       *)
(***************************************************************************)
NoNode == [kind |-> "None", span |-> Detached]

NoResult == [ok |-> FALSE, err |-> [span |-> Detached, msg |-> <<>>]]

Init ==
    /\ scopes \in Scopes
    /\ scopes0 = scopes
    /\ last = "idle"
    /\ node = NoNode
    /\ result = NoResult
    /\ trace = <<>>
    /\ calls = 0

\* A handler is called on `self` with the Vm as it stands; `r` is what it
\* hands back.
Call(handler, self, r) ==
    /\ last' = handler
    /\ node' = self
    /\ result' = r.res
    /\ scopes' = r.vm.scopes
    /\ trace' = r.vm.trace
    /\ calls' = calls + 1
    /\ UNCHANGED scopes0

Vm == [scopes |-> scopes, trace |-> <<>>]

EvalOpening ==
    /\ last = "idle"
    /\ calls < MaxCalls
    /\ \E e \in OpeningInputs : Call("Opening", e, OpeningEval(e, Vm))

EvalClosing ==
    /\ last = "idle"
    /\ calls < MaxCalls
    /\ \E e \in ClosingInputs : Call("Closing", e, ClosingEval(e, Vm))

EvalMathIdent ==
    /\ last = "idle"
    /\ calls < MaxCalls
    /\ \E e \in MathIdentInputs : Call("MathIdent", e, MathIdentEval(e, Vm))

EvalMathAlignPoint ==
    /\ last = "idle"
    /\ calls < MaxCalls
    /\ \E e \in MathAlignPointInputs : Call("MathAlignPoint", e, MathAlignPointEval(e, Vm))

EvalMathPrimes ==
    /\ last = "idle"
    /\ calls < MaxCalls
    /\ \E e \in MathPrimesInputs : Call("MathPrimes", e, MathPrimesEval(e, Vm))

EvalMath ==
    /\ last = "idle"
    /\ calls < MaxCalls
    /\ \E e \in MathInputs : Call("Math", e, MathEval(e, Vm))

EvalMathDelimited ==
    /\ last = "idle"
    /\ calls < MaxCalls
    /\ \E e \in MathDelimitedInputs : Call("MathDelimited", e, MathDelimitedEval(e, Vm))

EvalMathAttach ==
    /\ last = "idle"
    /\ calls < MaxCalls
    /\ \E e \in MathAttachInputs : Call("MathAttach", e, MathAttachEval(e, Vm))

EvalMathFrac ==
    /\ last = "idle"
    /\ calls < MaxCalls
    /\ \E e \in MathFracInputs : Call("MathFrac", e, MathFracEval(e, Vm))

EvalMathRoot ==
    /\ last = "idle"
    /\ calls < MaxCalls
    /\ \E e \in MathRootInputs : Call("MathRoot", e, MathRootEval(e, Vm))

EvalDisplay ==
    /\ last = "idle"
    /\ calls < MaxCalls
    /\ \E e \in ExprInputs : Call("eval_display", e, ExprEvalDisplay(e, Vm))

\* The caller takes the result (tests::test prints it); the Vm stays as the
\* handler left it.
Return ==
    /\ last # "idle"
    /\ last' = "idle"
    /\ node' = NoNode
    /\ result' = NoResult
    /\ trace' = <<>>
    /\ UNCHANGED <<scopes, scopes0, calls>>

Next ==
    \/ EvalOpening
    \/ EvalClosing
    \/ EvalMathIdent
    \/ EvalMathAlignPoint
    \/ EvalMathPrimes
    \/ EvalMath
    \/ EvalMathDelimited
    \/ EvalMathAttach
    \/ EvalMathFrac
    \/ EvalMathRoot
    \/ EvalDisplay
    \/ Return

Spec == Init /\ [][Next]_vars

(***************************************************************************)
(* Vocabulary of the properties.                                            *)
(***************************************************************************)
\* The Vm as it was constructed, before any evaluation.
Vm0 == [scopes |-> scopes0, trace |-> <<>>]

Called == last # "idle"

\* The handler named `h`.
Handler(h, self, vm) ==
    CASE h = "MathIdent" -> MathIdentEval(self, vm)
      [] h = "eval_display" -> ExprEvalDisplay(self, vm)
      [] OTHER -> ContentEval(self, vm)

RECURSIVE Flatten(_)
Flatten(ss) == IF ss = <<>> THEN <<>> ELSE Head(ss) \o Flatten(Tail(ss))

\* The nodes directly below a node, in the order its handler is documented
\* to evaluate them; of the primes and an explicit superscript only one counts.
Evaluated(e) ==
    CASE e.kind = "Math" -> e.exprs
      [] e.kind = "MathDelimited" -> <<e.open, e.body, e.close>>
      [] e.kind = "MathAttach" ->
           <<e.base>> \o (IF e.top # None THEN e.top ELSE e.primes) \o e.bottom
      [] e.kind = "MathFrac" -> <<e.num, e.denom>>
      [] e.kind = "MathRoot" -> <<e.radicand>>
      [] OTHER -> <<>>

\* Depth-first, parents before children: the documented evaluation order.
RECURSIVE Preorder(_)
Preorder(e) ==
    <<e>> \o Flatten([i \in 1..Len(Evaluated(e)) |-> Preorder(Evaluated(e)[i])])

\* The nodes directly below a node.
Children(e) ==
    IF e.kind = "MathAttach"
    THEN <<e.base>> \o e.top \o e.primes \o e.bottom
    ELSE Evaluated(e)

\* Every sub-expression of a node, at any depth, the node itself included.
RECURSIVE SubExprs(_)
SubExprs(e) ==
    {e} \cup UNION {SubExprs(Children(e)[i]) : i \in 1..Len(Children(e))}

\* A sub-expression whose own evaluation fails: an identifier not in scope.
Unresolved(e) == e.kind = "MathIdent" /\ e.name \notin DOMAIN scopes0

Spans(nodes) == [i \in 1..Len(nodes) |-> nodes[i].span]

\* The first index of a sequence of nodes at which evaluation fails.
FirstUnresolved(nodes) ==
    CHOOSE i \in 1..Len(nodes) :
        /\ Unresolved(nodes[i])
        /\ \A j \in 1..(i - 1) : ~Unresolved(nodes[j])

(***************************************************************************)
(* C3.  Evaluation is all-or-nothing: a handler returns content exactly     *)
(* when no sub-expression of its node, at any depth, fails to evaluate; if  *)
(* one fails, the handler returns an error and no content.                  *)
(***************************************************************************)
C3_AllOrNothing ==
    Called =>
        /\ result.ok <=> \A e \in SubExprs(node) : ExprEval(e, Vm0).res.ok
        /\ result.ok <=> \A e \in SubExprs(node) : ~Unresolved(e)
        /\ result.ok => "val" \in DOMAIN result
        /\ ~result.ok => "val" \notin DOMAIN result /\ "err" \in DOMAIN result

\* A math span whose failing identifier lies three levels down is refused.
C3_Witness ==
    /\ last = "Math"
    /\ ~result.ok
    /\ Len(result.err.span) >= 4
    /\ \E e \in SubExprs(node) : e.kind = "MathIdent" /\ ~Unresolved(e)

(***************************************************************************)
(* C10.  The error of a failed evaluation is the error of the first         *)
(* failing sub-expression in depth-first order, and the handlers entered    *)
(* are exactly those of the nodes up to it: nothing after it is evaluated.  *)
(* A successful evaluation enters every node of the order.                  *)
(***************************************************************************)
C10_FirstFailureWins ==
    Called =>
        LET order == Preorder(node)
        IN  IF result.ok
            THEN trace = Spans(order)
            ELSE LET k == FirstUnresolved(order)
                 IN  /\ result.err.span = order[k].span
                     /\ result.err.msg = <<"unknown variable", order[k].name>>
                     /\ trace = Spans(SubSeq(order, 1, k))

\* Two sub-expressions fail and something comes after the first of them.
C10_Witness ==
    /\ Called
    /\ ~result.ok
    /\ Cardinality({e \in SubExprs(node) : Unresolved(e)}) >= 2
    /\ Len(trace) < Len(Preorder(node))
    /\ Len(trace) >= 3

\* Every element of a content tree, the root included.
RECURSIVE Elements(_)
Elements(c) ==
    LET below ==
            CASE c.kind = "SequenceElem" -> c.children
              [] c.kind = "AttachElem" -> <<c.base>> \o c.t \o c.b \o c.tr
              [] c.kind = "FracElem" -> <<c.num, c.denom>>
              [] c.kind = "RootElem" -> c.index \o <<c.radicand>>
              [] c.kind = "LrElem" -> <<c.body>>
              [] OTHER -> <<>>
    IN  {c} \cup UNION {Elements(below[i]) : i \in 1..Len(below)}

\* The display-coerced result of an expression, evaluated on its own.
Displayed(e) == ExprEvalDisplay(e, Vm0).res.val

(***************************************************************************)
(* C1.  The superscript of a built attachment has exactly one source: an    *)
(* explicit superscript fills t with the displayed top and attaches no      *)
(* primes; primes without an explicit superscript attach a primes element   *)
(* and fill no t; with neither both stay empty.  t and the primes element   *)
(* are never both present.                                                  *)
(***************************************************************************)
C1_SuperscriptOneSource ==
    (last = "MathAttach" /\ result.ok) =>
        LET v == result.val
        IN  /\ v.kind = "AttachElem"
            /\ node.top # None =>
                   v.t = Some(Displayed(node.top[1])) /\ v.tr = None
            /\ (node.top = None /\ node.primes # None) =>
                   /\ v.t = None
                   /\ Len(v.tr) = 1
                   /\ v.tr[1].kind = "PrimesElem"
                   /\ v.tr[1].count = node.primes[1].count
            /\ (node.top = None /\ node.primes = None) =>
                   v.t = None /\ v.tr = None
            /\ ~(v.t # None /\ v.tr # None)

\* An attachment written with primes and an explicit superscript was built.
C1_Witness ==
    /\ last = "MathAttach"
    /\ result.ok
    /\ node.top # None
    /\ node.primes # None
    /\ result.val.t # None
    /\ result.val.tr = None

(***************************************************************************)
(* C2.  An attachment with primes and an explicit superscript is built with *)
(* the displayed superscript in t, and the prime count is still recorded in *)
(* the built output.                                                        *)
(***************************************************************************)
C2_PrimeCountRecorded ==
    (last = "MathAttach" /\ result.ok /\ node.top # None /\ node.primes # None) =>
        /\ result.val.t = Some(Displayed(node.top[1]))
        /\ \E el \in Elements(result.val) :
               el.kind = "PrimesElem" /\ el.count = node.primes[1].count

(***************************************************************************)
(* C4.  An identifier absent from the math scope evaluates to an error      *)
(* carrying the identifier's span, with no value in its place; a present    *)
(* identifier evaluates to a copy of the value bound to it, which stays     *)
(* bound.                                                                   *)
(***************************************************************************)
C4_IdentLookup ==
    last = "MathIdent" =>
        IF node.name \in DOMAIN scopes0
        THEN /\ result.ok
             /\ result.val = scopes0[node.name]
             /\ node.name \in DOMAIN scopes
             /\ scopes[node.name] = result.val
        ELSE /\ ~result.ok
             /\ "val" \notin DOMAIN result
             /\ result.err.span = node.span
             /\ result.err.msg = <<"unknown variable", node.name>>

\* An absent identifier was evaluated away from the root, next to a bound one.
C4_Witness ==
    /\ last = "MathIdent"
    /\ ~result.ok
    /\ node.span # RootSpan
    /\ result.err.span = node.span
    /\ scopes0 # <<>>

(***************************************************************************)
(* C5.  Evaluation is deterministic: whatever was evaluated before on the   *)
(* same Vm, a handler's result is the one it gives on the Vm as it was      *)
(* constructed, so two evaluations of one tree agree.                       *)
(***************************************************************************)
C5_Deterministic == Called => result = Handler(last, node, Vm0).res

\* A second evaluation on the same Vm, of a tree that reads the scope.
C5_Witness ==
    /\ calls >= 2
    /\ last = "Math"
    /\ result.ok
    /\ \E e \in SubExprs(node) : e.kind = "MathIdent"

(***************************************************************************)
(* C7.  The math scope is only read: no step of an evaluation, successful   *)
(* or failed, changes the bindings or a bound value.                        *)
(***************************************************************************)
C7_ScopeReadOnly == [][scopes' = scopes]_vars

\* A failed evaluation that looked identifiers up in a scope with bindings.
C7_Witness ==
    /\ Called
    /\ ~result.ok
    /\ scopes0 # <<>>
    /\ scopes = scopes0
    /\ \E e \in SubExprs(node) : e.kind = "MathIdent" /\ ~Unresolved(e)

(***************************************************************************)
(* C8.  A successful math sequence is the composite of the displayed        *)
(* results of its children, one part per child, in source order.            *)
(***************************************************************************)
C8_SequenceInOrder ==
    (last = "Math" /\ result.ok) =>
        /\ result.val.kind = "SequenceElem"
        /\ Len(result.val.children) = Len(node.exprs)
        /\ \A i \in 1..Len(node.exprs) :
               result.val.children[i] = Displayed(node.exprs[i])

\* A sequence of two children whose displayed results differ.
C8_Witness ==
    /\ last = "Math"
    /\ result.ok
    /\ Len(node.exprs) >= 2
    /\ result.val.children[1].kind # result.val.children[2].kind

(***************************************************************************)
(* C9.  A successful delimited group is one LrElem whose body is the text   *)
(* of the node's opening glyph, the built inner content and the text of     *)
(* the node's closing glyph, in this order; an opening or closing delimiter *)
(* by itself always evaluates, to the text of its glyph.                    *)
(***************************************************************************)
C9_DelimitedGroup ==
    /\ (last = "MathDelimited" /\ result.ok) =>
           LET parts == Parts(result.val.body)
               inner == Parts(MathEval(node.body, Vm0).res.val)
               n == Len(parts)
           IN  /\ result.val.kind = "LrElem"
               /\ n = Len(inner) + 2
               /\ parts[1].kind = "TextElem"
               /\ parts[1].text = node.open.delim
               /\ SubSeq(parts, 2, n - 1) = inner
               /\ parts[n].kind = "TextElem"
               /\ parts[n].text = node.close.delim
    /\ last \in {"Opening", "Closing"} =>
           /\ result.ok
           /\ result.val.kind = "TextElem"
           /\ result.val.text = node.delim

\* A group with unlike glyphs around a body of two parts.
C9_Witness ==
    /\ last = "MathDelimited"
    /\ result.ok
    /\ node.open.delim = "["
    /\ node.close.delim = ")"
    /\ Len(node.body.exprs) = 2

(***************************************************************************)
(* C6.  Every element of the content built for a math span carries the     *)
(* span of the syntax node it came from (or the span its value already      *)
(* had): the primes element of an attachment, the index text of a root,     *)
(* the delimiter texts and the composites included.                         *)
(***************************************************************************)
C6_EveryElementSpanned ==
    (last = "Math" /\ result.ok) =>
        \A el \in Elements(result.val) :
            el.span \in {e.span : e \in SubExprs(node)} \cup {BoundSpan}

====
